---------------------------- MODULE Spec2Model ----------------------------
(***************************************************************************)
(* State-machine model of the PDF preprocessing core of FROAV_LLM:         *)
(*   PDFPreprocessor.chunk_text      (pdf_preprocessor.py)                 *)
(*   PDFPreprocessor.extract_text_from_pdf, preprocess_pdf                 *)
(*   _batched_chunks, preprocess_pdf_file   (pdf_file_preprocess.py)       *)
(* of the endpoint that serves it:                                         *)
(*   preprocess_pdf_endpoint         (llm_judges_router.py)                *)
(* and of login and feedback in the dashboard:                             *)
(*   main                            (main_page.py)                        *)
(*   authenticate_user, get_existing_feedback   (utils.py)                 *)
(*   render_feedback_form, save_report_feedback (feedback_window.py)       *)
(* A text is a sequence of one-character strings; positions are 0-based    *)
(* as in Python (character i of s is s[i+1]).                              *)
(***************************************************************************)
EXTENDS Integers, Sequences, FiniteSets, TLC

(***************************************************************************)
(* Bounds of the model.                                                    *)
(***************************************************************************)
\* most pages of a page list handed to chunk_text directly
MaxPages == 2
\* most characters of page text in one list, all pages together, a page after
\* the first counted as one character
MaxChars == 4
\* most chunks of a chunk list handed to _batched_chunks directly
MaxChunkCount == 7
\* largest batch_size tried (besides the default)
MaxBatchSize == 3
\* the PDF files on disk hold pages of up to MaxBlocks blocks of BlockLen characters
MaxBlocks == 6
BlockLen == 800
\* iterations followed of a splitting loop that cannot end (max_chunk_size <= 0)
MaxStalledIterations == 4
\* most calls of chunk_text made on one preprocessor
MaxCalls == 3

(***************************************************************************)
(* Program constants.                                                      *)
(***************************************************************************)
MAX_CHUNK_SIZE == 1500
CHUNK_OVERLAP == 200
DEFAULT_BATCH_SIZE == 150

(***************************************************************************)
(* Python string primitives.                                               *)
(***************************************************************************)
SetMax(S) == CHOOSE x \in S : \A y \in S : y <= x
SetMin(S) == CHOOSE x \in S : \A y \in S : x <= y
Min2(a, b) == IF a <= b THEN a ELSE b

\* str.strip() removes these (the whitespace of the model's alphabet)
Whitespace == {" ", "\n", "\t"}

\* how Python reads the bound i of a slice of a string of length n: a negative
\* bound counts from the end, and the result is clamped to 0..n
PyIndex(i, n) == IF i < 0 THEN (IF i + n < 0 THEN 0 ELSE i + n) ELSE Min2(i, n)

\* s[a:b] (a >= b after the bounds are read gives "")
Slice(s, a, b) == SubSeq(s, PyIndex(a, Len(s)) + 1, PyIndex(b, Len(s)))

\* s[i:i+len(sub)] == sub
StartsAt(s, sub, i) ==
    /\ i >= 0
    /\ i + Len(sub) <= Len(s)
    /\ \A k \in 1..Len(sub) : s[i + k] = sub[k]

\* s.rfind(sub, start, end): highest index in [start, end - len(sub)], or -1;
\* start and end are read as slice bounds
rfind(s, sub, start, end) ==
    LET found == {i \in PyIndex(start, Len(s))..(PyIndex(end, Len(s)) - Len(sub)) :
                     StartsAt(s, sub, i)}
    IN  IF found = {} THEN -1 ELSE SetMax(found)

\* s.strip()
strip(s) ==
    LET first == CHOOSE i \in 1..Len(s) :
                    s[i] \notin Whitespace /\ \A j \in 1..(i - 1) : s[j] \in Whitespace
        last  == CHOOSE i \in 1..Len(s) :
                    s[i] \notin Whitespace /\ \A j \in (i + 1)..Len(s) : s[j] \in Whitespace
    IN  IF \A i \in 1..Len(s) : s[i] \in Whitespace THEN <<>> ELSE SubSeq(s, first, last)

Digits == <<"0", "1", "2", "3", "4", "5", "6", "7", "8", "9">>
DigitSet == {Digits[d] : d \in 1..10}
DigitVal(c) == (CHOOSE d \in 1..10 : Digits[d] = c) - 1

\* str(n) for n >= 0 (the f-string formatting of the page number)
RECURSIVE IntToStr(_)
IntToStr(n) == IF n < 10 THEN <<Digits[n + 1]>>
               ELSE IntToStr(n \div 10) \o <<Digits[(n % 10) + 1]>>

\* int(digits)
RECURSIVE StrToInt(_)
StrToInt(ds) == IF Len(ds) = 0 THEN 0
                ELSE 10 * StrToInt(SubSeq(ds, 1, Len(ds) - 1)) + DigitVal(ds[Len(ds)])

(***************************************************************************)
(* The page separator  f"\n\n--- PAGE BREAK [{i}] ---\n\n"  and the        *)
(* pattern  r"--- PAGE BREAK \[(\d+)\] ---"  that recovers it.             *)
(***************************************************************************)
MarkerHead == <<"-", "-", "-", " ", "P", "A", "G", "E", " ",
                "B", "R", "E", "A", "K", " ", "[">>
MarkerTail == <<"]", " ", "-", "-", "-">>
ParagraphBreak == <<"\n", "\n">>

PageBreak(i) == ParagraphBreak \o MarkerHead \o IntToStr(i) \o MarkerTail \o ParagraphBreak

\* number of digits at s[i:], s[i+1:], ...
RECURSIVE DigitRun(_, _)
DigitRun(s, i) == IF i < Len(s) /\ s[i + 1] \in DigitSet THEN 1 + DigitRun(s, i + 1) ELSE 0

\* the pattern matches at position i of s
RegexMatchAt(s, i) ==
    /\ StartsAt(s, MarkerHead, i)
    /\ DigitRun(s, i + Len(MarkerHead)) >= 1
    /\ StartsAt(s, MarkerTail, i + Len(MarkerHead) + DigitRun(s, i + Len(MarkerHead)))

\* page_break_regex.search(s): positions of all matches (search takes the leftmost)
RegexMatches(s) == {i \in 0..(Len(s) - 1) : RegexMatchAt(s, i)}

\* int(match.group(1)) of the leftmost match
RegexGroup1(s) ==
    LET i == SetMin(RegexMatches(s))
        d == i + Len(MarkerHead)
    IN  StrToInt(SubSeq(s, d + 1, d + DigitRun(s, d)))

(***************************************************************************)
(* chunk_text: concatenation of the pages.                                 *)
(***************************************************************************)
RECURSIVE CombinedUpTo(_, _)
CombinedUpTo(page_texts, n) ==
    IF n = 0 THEN <<>>
    ELSE CombinedUpTo(page_texts, n - 1)
         \o (IF n - 1 > 0 THEN PageBreak(n - 1) ELSE <<>>)
         \o page_texts[n]

CombinedText(page_texts) == CombinedUpTo(page_texts, Len(page_texts))

\* mutant: the any(page_texts) test forgotten
NothingToChunkNoPagesOnly(page_texts) == Len(page_texts) = 0

\* not page_texts or not any(page_texts)
NothingToChunk(page_texts) ==
    Len(page_texts) = 0 \/ \A i \in 1..Len(page_texts) : page_texts[i] = <<>>


\* lines 116-127: the single-chunk shortcut
SingleChunk(page_texts, combined) ==
    <<[chunk_index  |-> 0,
       chunk_text   |-> combined,
       total_chunks |-> 1,
       char_count   |-> Len(combined),
       is_last      |-> TRUE,
       page_index   |-> 0,
       page_range   |-> <<0, Len(page_texts) - 1>>]>>

\* mutant: < for <=
FitsOneChunkStrict(combined, max) == Len(combined) < max

\* line 116
FitsOneChunk(combined, max) == Len(combined) <= max

(***************************************************************************)
(* chunk_text: one iteration of the splitting loop (lines 134-169).        *)
(***************************************************************************)
\* mutant: rfind(sub, current_pos) without the end of the window
BreakPointUnbounded(text, pos, max) ==
    LET window_end     == Min2(pos + max, Len(text))
        last_paragraph == rfind(text, ParagraphBreak, pos, Len(text))
        last_newline   == rfind(text, <<"\n">>, pos, Len(text))
        last_sentence  == rfind(text, <<".", " ">>, pos, Len(text))
        last_space     == rfind(text, <<" ">>, pos, Len(text))
    IN  IF ~(window_end < Len(text))
            THEN [kind |-> "end", chunk_end |-> window_end]
        ELSE IF last_paragraph > pos
            THEN [kind |-> "paragraph", chunk_end |-> last_paragraph + 2]
        ELSE IF last_newline > pos
            THEN [kind |-> "newline", chunk_end |-> last_newline + 1]
        ELSE IF last_sentence > pos
            THEN [kind |-> "sentence", chunk_end |-> last_sentence + 2]
        ELSE IF last_space > pos
            THEN [kind |-> "space", chunk_end |-> last_space + 1]
        ELSE [kind |-> "none", chunk_end |-> window_end]

\* mutant: a window without separator is not cut, the rest of the text is taken
BreakPointNoCut(text, pos, max) ==
    LET window_end     == Min2(pos + max, Len(text))
        last_paragraph == rfind(text, ParagraphBreak, pos, window_end)
        last_newline   == rfind(text, <<"\n">>, pos, window_end)
        last_sentence  == rfind(text, <<".", " ">>, pos, window_end)
        last_space     == rfind(text, <<" ">>, pos, window_end)
    IN  IF ~(window_end < Len(text))
            THEN [kind |-> "end", chunk_end |-> window_end]
        ELSE IF last_paragraph > pos
            THEN [kind |-> "paragraph", chunk_end |-> last_paragraph + 2]
        ELSE IF last_newline > pos
            THEN [kind |-> "newline", chunk_end |-> last_newline + 1]
        ELSE IF last_sentence > pos
            THEN [kind |-> "sentence", chunk_end |-> last_sentence + 2]
        ELSE IF last_space > pos
            THEN [kind |-> "space", chunk_end |-> last_space + 1]
        ELSE [kind |-> "none", chunk_end |-> Len(text)]

\* mutant: the single newline is tried before the double newline
BreakPointNewlineFirst(text, pos, max) ==
    LET window_end     == Min2(pos + max, Len(text))
        last_paragraph == rfind(text, ParagraphBreak, pos, window_end)
        last_newline   == rfind(text, <<"\n">>, pos, window_end)
        last_sentence  == rfind(text, <<".", " ">>, pos, window_end)
        last_space     == rfind(text, <<" ">>, pos, window_end)
    IN  IF ~(window_end < Len(text))
            THEN [kind |-> "end", chunk_end |-> window_end]
        ELSE IF last_newline > pos
            THEN [kind |-> "newline", chunk_end |-> last_newline + 1]
        ELSE IF last_paragraph > pos
            THEN [kind |-> "paragraph", chunk_end |-> last_paragraph + 2]
        ELSE IF last_sentence > pos
            THEN [kind |-> "sentence", chunk_end |-> last_sentence + 2]
        ELSE IF last_space > pos
            THEN [kind |-> "space", chunk_end |-> last_space + 1]
        ELSE [kind |-> "none", chunk_end |-> window_end]

\* lines 136-159: where the span starting at pos ends, and the kind of break
\* point that decided it ("end": the window reached the end of the text and no
\* search was done; "none": no separator found, cut at the window's end)
BreakPoint(text, pos, max) ==
    LET window_end     == Min2(pos + max, Len(text))
        last_paragraph == rfind(text, ParagraphBreak, pos, window_end)
        last_newline   == rfind(text, <<"\n">>, pos, window_end)
        last_sentence  == rfind(text, <<".", " ">>, pos, window_end)
        last_space     == rfind(text, <<" ">>, pos, window_end)
    IN  IF ~(window_end < Len(text))
            THEN [kind |-> "end", chunk_end |-> window_end]
        ELSE IF last_paragraph > pos
            THEN [kind |-> "paragraph", chunk_end |-> last_paragraph + 2]
        ELSE IF last_newline > pos
            THEN [kind |-> "newline", chunk_end |-> last_newline + 1]
        ELSE IF last_sentence > pos
            THEN [kind |-> "sentence", chunk_end |-> last_sentence + 2]
        ELSE IF last_space > pos
            THEN [kind |-> "space", chunk_end |-> last_space + 1]
        ELSE [kind |-> "none", chunk_end |-> window_end]

\* mutant: the character at chunk_end is skipped
NextPosSkipping(pos, chunk_end, overlap) ==
    IF chunk_end - pos > overlap * 3 THEN chunk_end - overlap ELSE chunk_end + 1

\* mutant: no rewind
NextPosNoOverlap(pos, chunk_end, overlap) == chunk_end

\* mutant: the threshold is twice the overlap
NextPosThresholdDouble(pos, chunk_end, overlap) ==
    IF chunk_end - pos > overlap * 2 THEN chunk_end - overlap ELSE chunk_end

\* mutant: the rewind taken whatever the length of the span
NextPosAlwaysOverlap(pos, chunk_end, overlap) == chunk_end - overlap

\* mutant: >= for >
NextPosThresholdInclusive(pos, chunk_end, overlap) ==
    IF chunk_end - pos >= overlap * 3 THEN chunk_end - overlap ELSE chunk_end

\* lines 166-169: the next current_pos
NextPos(pos, chunk_end, overlap) ==
    IF chunk_end - pos > overlap * 3 THEN chunk_end - overlap ELSE chunk_end

\* lines 162-164: the trimmed span is kept only when non-empty
KeepChunk(chunks, chunk) == IF chunk # <<>> THEN Append(chunks, chunk) ELSE chunks

(***************************************************************************)
(* chunk_text: chunk metadata (lines 171-194).                             *)
(***************************************************************************)
\* mutant: a chunk without a marker starts again from page 1
PageIdxAfterNoCarry(chunks, k) ==
    IF k = 0 THEN 1
    ELSE IF RegexMatches(chunks[k]) # {} THEN RegexGroup1(chunks[k]) + 1
    ELSE 1

\* the running page_idx after the first k chunks were scanned
RECURSIVE PageIdxAfter(_, _)
PageIdxAfter(chunks, k) ==
    IF k = 0 THEN 1
    ELSE IF RegexMatches(chunks[k]) # {} THEN RegexGroup1(chunks[k]) + 1
    ELSE PageIdxAfter(chunks, k - 1)

\* mutant: chunks numbered from 1
ChunkDictOneBased(chunks, idx) ==
    [chunk_index  |-> idx + 1,
     chunk_text   |-> chunks[idx + 1],
     total_chunks |-> Len(chunks),
     char_count   |-> Len(chunks[idx + 1]),
     is_last      |-> (idx + 1 = Len(chunks) - 1),
     page_index   |-> PageIdxAfter(chunks, idx + 1)]

\* lines 185-194, for the chunk at 0-based position idx
ChunkDict(chunks, idx) ==
    [chunk_index  |-> idx,
     chunk_text   |-> chunks[idx + 1],
     total_chunks |-> Len(chunks),
     char_count   |-> Len(chunks[idx + 1]),
     is_last      |-> (idx = Len(chunks) - 1),
     page_index   |-> PageIdxAfter(chunks, idx + 1)]

ChunkDicts(chunks) == [i \in 1..Len(chunks) |-> ChunkDict(chunks, i - 1)]

(***************************************************************************)
(* Inputs of the direct calls of chunk_text.                               *)
(***************************************************************************)
Alphabet == {"a", " ", "\n", "."}

\* the texts of at most n characters
Texts(n) == UNION {[1..k -> Alphabet] : k \in 0..n}

\* the page lists of exactly p pages holding at most budget characters
RECURSIVE PageListsOf(_, _)
PageListsOf(p, budget) ==
    IF p = 0 THEN {<<>>}
    ELSE UNION {{<<t>> \o rest : rest \in PageListsOf(p - 1, budget - Len(t))} :
                t \in Texts(budget)}

\* the page lists of one page more, every page at most one character: empty
\* pages between pages, page separators side by side
SparsePageLists == [1..(MaxPages + 1) -> Texts(1)]

PageLists ==
    UNION {PageListsOf(p, MaxChars + 1 - p) : p \in 0..MaxPages} \cup SparsePageLists

\* the page lists handed to a preprocessor that is used for several calls
ReusePageLists == [1..2 -> {<<>>, <<"a">>, <<"a", "a", "a">>}]

\* PDFPreprocessor(max_chunk_size, overlap_size): the sizes tried
MaxChunkSizes == {-1, 0, 3, 7, 28}
OverlapSizes == {0, 1, 3}

(***************************************************************************)
(* Inputs of _batched_chunks and preprocess_pdf_file.                      *)
(***************************************************************************)
BatchSizes == (-1..MaxBatchSize) \cup {DEFAULT_BATCH_SIZE}

\* chunk lists for the direct calls of _batched_chunks
ChunkLists == {[i \in 1..n |-> [chunk_index |-> i - 1]] : n \in 0..MaxChunkCount}

\* a word of BlockLen - 1 letters and a space
Block == [i \in 1..BlockLen |-> IF i = BlockLen THEN " " ELSE "a"]
RECURSIVE Blocks(_)
Blocks(k) == IF k = 0 THEN <<>> ELSE Blocks(k - 1) \o Block

\* what page.extract_text() does on a page: returns text, returns None, or raises
TextPage(t) == [kind |-> "text", text |-> t]
NonePage == [kind |-> "none", text |-> <<>>]
RaisingPage == [kind |-> "raises", text |-> <<>>]

\* a path: whether it exists, whether PdfReader can open it, and its pages
PdfFile(name, exists, readable, pages) ==
    [name |-> name, exists |-> exists, readable |-> readable, pages |-> pages]

PdfFiles ==
    {PdfFile("missing.pdf", FALSE, FALSE, <<>>),
     PdfFile("corrupt.pdf", TRUE, FALSE, <<>>),
     PdfFile("nopages.pdf", TRUE, TRUE, <<>>),
     PdfFile("blank.pdf", TRUE, TRUE, <<NonePage, RaisingPage, TextPage(<<>>)>>),
     PdfFile("short.pdf", TRUE, TRUE,
             <<RaisingPage, TextPage(<<"a", ".", " ", "b">>), NonePage>>)}
    \cup {PdfFile("long.pdf", TRUE, TRUE, <<TextPage(Blocks(k))>>) : k \in 2..MaxBlocks}
    \cup {PdfFile("pages.pdf", TRUE, TRUE,
                  <<TextPage(Blocks(1)), NonePage, TextPage(Blocks(k))>>) : k \in 1..MaxBlocks}

\* mutant: the existence check left out
PathExistsUnchecked(f) == TRUE

\* file_path.exists(), pdf_file_preprocess.py line 57
PathExists(f) == f.exists

(***************************************************************************)
(* extract_text_from_pdf, lines 62-73: one string per page.                *)
(***************************************************************************)
\* text or "" ; "" when extract_text raised
ExtractPage(page) == IF page.kind = "text" THEN page.text ELSE <<>>

\* mutant: a page that gave no text is skipped
ExtractTextDroppingFailures(file) ==
    LET texts == [i \in 1..Len(file.pages) |-> ExtractPage(file.pages[i])]
    IN  SelectSeq(texts, LAMBDA t : t # <<>>)

\* lines 55-78: the list built by the loop over pdf_reader.pages
ExtractText(file) == [i \in 1..Len(file.pages) |-> ExtractPage(file.pages[i])]

(***************************************************************************)
(* _batched_chunks (a generator) and the aggregation of preprocess_pdf_file*)
(***************************************************************************)
\* a // b of Python (floor division), b # 0
PyFloorDiv(a, b) == IF b > 0 THEN a \div b ELSE (0 - a) \div (0 - b)

\* mutant: the check of batch_size left out
BatchSizeUnchecked(batch_size) == FALSE

\* line 28
BadBatchSize(batch_size) == batch_size <= 0

\* the generator object returned by _batched_chunks(chunks, batch_size): no line
\* of its body has run yet
NewGenerator(chunk_list, batch_size) ==
    [pc |-> "unstarted", chunks |-> chunk_list, batch_size |-> batch_size,
     start |-> 0, batch_index |-> 0]

\* no generator was created yet
NoGenerator == [NewGenerator(<<>>, 0) EXCEPT !.pc = "absent"]

\* next(generator): runs the body up to the next yield (lines 28-36)
GenNext(g) ==
    LET total == Len(g.chunks)
        \* the next value of range(0, total_chunks, batch_size)
        start == IF g.pc = "unstarted" THEN 0 ELSE g.start + g.batch_size
        index == IF g.pc = "unstarted" THEN 0 ELSE g.batch_index + 1
        end   == Min2(start + g.batch_size, total)
        more  == IF g.batch_size > 0 THEN start < total ELSE start > total
    IN  IF g.pc = "unstarted" /\ BadBatchSize(g.batch_size)
            THEN [event |-> "ValueError", gen |-> [g EXCEPT !.pc = "raised"]]
        ELSE IF g.batch_size = 0   \* range() arg 3 must not be zero
            THEN [event |-> "ValueError", gen |-> [g EXCEPT !.pc = "raised"]]
        ELSE IF more
            THEN [event |-> "yield",
                  batch_index |-> index,
                  batch |-> Slice(g.chunks, start, end),
                  gen |-> [g EXCEPT !.pc = "yielded", !.start = start,
                                    !.batch_index = index]]
        ELSE [event |-> "StopIteration", gen |-> [g EXCEPT !.pc = "finished"]]

RECURSIVE SumCharCount(_, _)
SumCharCount(dicts, n) ==
    IF n = 0 THEN 0 ELSE SumCharCount(dicts, n - 1) + dicts[n].char_count

\* mutant: the division not rounded up
TotalBatchesFloor(total_chunks, batch_size) ==
    IF total_chunks # 0 THEN PyFloorDiv(total_chunks, batch_size) ELSE 0

\* line 64, for batch_size # 0 or total_chunks = 0
TotalBatches(total_chunks, batch_size) ==
    IF total_chunks # 0 THEN PyFloorDiv(total_chunks + batch_size - 1, batch_size) ELSE 0

\* mutant: compared with total_batches instead of total_batches - 1
IsLastBatchOffByOne(batch_index, total_batches) ==
    IF total_batches # 0 THEN batch_index = total_batches ELSE TRUE

\* line 72
IsLastBatch(batch_index, total_batches) ==
    IF total_batches # 0 THEN batch_index = total_batches - 1 ELSE TRUE

\* lines 74-81
ChunkView(chunk_data) ==
    [chunk_index      |-> chunk_data.chunk_index,
     chunk_text       |-> chunk_data.chunk_text,
     total_chunks     |-> chunk_data.total_chunks,
     is_last_chunk    |-> chunk_data.is_last,
     chunk_char_count |-> chunk_data.char_count,
     page_index       |-> chunk_data.page_index]

\* lines 68-84
BatchPayload(batch_index, batch_chunks, batch_size, total_batches) ==
    [batch_index   |-> batch_index,
     batch_size    |-> batch_size,
     chunk_count   |-> Len(batch_chunks),
     is_last_batch |-> IsLastBatch(batch_index, total_batches),
     chunks        |-> [i \in 1..Len(batch_chunks) |-> ChunkView(batch_chunks[i])]]

\* mutant: the two counts of the summary exchanged
AggregatedResultSwapped(file, batch_size, total, characters, batches, results) ==
    [success         |-> TRUE,
     preprocessed    |-> TRUE,
     file_name       |-> file.name,
     company_ticker  |-> "Unknown Company",
     report_type     |-> "10-K",
     total_chunks    |-> total,
     total_batches   |-> batches,
     batch_size      |-> batch_size,
     batch_results   |-> results,
     summary         |-> [total_characters |-> characters,
                          chunks_processed |-> batches,
                          batches_sent     |-> total]]

\* lines 87-102
AggregatedResult(file, batch_size, total, characters, batches, results) ==
    [success         |-> TRUE,
     preprocessed    |-> TRUE,
     file_name       |-> file.name,
     company_ticker  |-> "Unknown Company",
     report_type     |-> "10-K",
     total_chunks    |-> total,
     total_batches   |-> batches,
     batch_size      |-> batch_size,
     batch_results   |-> results,
     summary         |-> [total_characters |-> characters,
                          chunks_processed |-> total,
                          batches_sent     |-> batches]]

NoResult == [success |-> FALSE]

(***************************************************************************)
(* POST /llm-judges/pdf/preprocess (llm_judges_router.py lines 69-92): the *)
(* directories under BASE_PDF_PATH and the requests tried.                 *)
(***************************************************************************)
\* most tickers in one request
MaxTickers == 2

Tickers == {"AAA", "BBB", "BAD", "GONE", "EMPTY", "NODIR"}

\* whether BASE_PDF_PATH / ticker is there: iterdir() raises FileNotFoundError
\* when it is not
DirExists(ticker) == ticker # "NODIR"

\* list((BASE_PDF_PATH / ticker).iterdir()): the entries of the directory; an
\* entry can be a file PdfReader cannot read, or a link to a file that is gone
IterDir(ticker) ==
    CASE ticker = "AAA" ->
            <<PdfFile("short.pdf", TRUE, TRUE,
                      <<RaisingPage, TextPage(<<"a", ".", " ", "b">>), NonePage>>),
              PdfFile("long.pdf", TRUE, TRUE, <<TextPage(Blocks(2))>>)>>
      [] ticker = "BBB" ->
            <<PdfFile("pages.pdf", TRUE, TRUE,
                      <<TextPage(Blocks(1)), NonePage, TextPage(Blocks(1))>>)>>
      [] ticker = "BAD" ->
            <<PdfFile("nopages.pdf", TRUE, TRUE, <<>>),
              PdfFile("corrupt.pdf", TRUE, FALSE, <<>>)>>
      [] ticker = "GONE" ->
            <<PdfFile("blank.pdf", TRUE, TRUE, <<NonePage, RaisingPage, TextPage(<<>>)>>),
              PdfFile("missing.pdf", FALSE, FALSE, <<>>)>>
      [] OTHER -> <<>>

ReportTypeAt(i) == IF i = 1 THEN "10-K" ELSE "10-Q"

\* PDFPreprocessRequest: two lists; nothing makes them equally long
Requests ==
    UNION {{[pdf_file_company_ticker |-> tickers,
             report_type |-> [i \in 1..m |-> ReportTypeAt(i)]] :
                tickers \in [1..n -> Tickers], m \in {k \in {n - 1, n} : k >= 0}} :
           n \in 0..MaxTickers}

NoResponse == [status_code |-> 0, body |-> <<>>]

\* return all_parsed_data (line 87)
OkResponse(all_parsed_data) == [status_code |-> 200, body |-> all_parsed_data]

\* mutant: every failure answered 500
ExceptionStatusAlways500(exception) == 500

\* lines 88-92: the status of the HTTPException raised for an exception
ExceptionStatus(exception) == IF exception = "FileNotFoundError" THEN 404 ELSE 500

\* raise HTTPException(status_code=..., detail=...): a detail string, no results
HTTPException(status_code) == [status_code |-> status_code, body |-> <<>>]

NoRequest ==
    [pc              |-> "idle",
     req             |-> [pdf_file_company_ticker |-> <<>>, report_type |-> <<>>],
     company_idx     |-> 0,
     pdf_file_paths  |-> <<>>,
     file_idx        |-> 0,
     all_parsed_data |-> <<>>,
     response        |-> NoResponse]

(***************************************************************************)
(* The dashboard (LLMJudges_frontend): browser sessions, the rows of table *)
(* user_data, and what is typed into the login form.                       *)
(***************************************************************************)
\* most statements save_report_feedback executes in one behaviour
MaxWrites == 3

Sessions == {1, 2}

None == [none |-> TRUE]

user_data ==
    {[id |-> 1, user_name |-> <<"u">>, user_token |-> <<"s">>],
     [id |-> 2, user_name |-> <<"v">>, user_token |-> <<"t">>]}

UserNames == {<<" ">>, <<"u">>, <<" ", "v", " ">>}
UserTokens == {<<" ">>, <<"s">>, <<"t">>}

\* report_execution_id of the row the form is rendered for
Reports == {"e1", "e2"}

\* mutant: the token is not compared
authenticate_user_any_token(user_name, user_token, db_ok) ==
    IF strip(user_name) = <<>> \/ strip(user_token) = <<>> THEN None
    ELSE IF ~db_ok THEN None
    ELSE LET result == {r \in user_data : r.user_name = strip(user_name)}
         IN  IF result # {} THEN CHOOSE r \in result : TRUE ELSE None

\* utils.py lines 44-67; db_ok: the connection and the query raise nothing
authenticate_user(user_name, user_token, db_ok) ==
    IF strip(user_name) = <<>> \/ strip(user_token) = <<>> THEN None
    ELSE IF ~db_ok THEN None
    ELSE LET result == {r \in user_data : /\ r.user_name = strip(user_name)
                                          /\ r.user_token = strip(user_token)}
         IN  IF result # {} THEN CHOOSE r \in result : TRUE ELSE None

\* NOW() of the next statement: later than every logged_at in the table
Now(table) == 1 + SetMax({0} \cup {table[i].logged_at : i \in 1..Len(table)})

\* utils.py lines 70-101: the row of the pair with the latest logged_at, None
\* when there is none or when the connection or the query raises
get_existing_feedback(table, user_name, report_execution_id, db_ok) ==
    LET result == {i \in 1..Len(table) :
                      /\ table[i].user_name = user_name
                      /\ table[i].report_n8n_execution_id = report_execution_id}
    IN  IF ~db_ok \/ result = {} THEN None
        ELSE table[CHOOSE i \in result :
                       \A j \in result : table[j].logged_at <= table[i].logged_at]

\* feedback_window.py lines 32-43: UPDATE ... WHERE id = %s AND user_name = %s
UpdateFeedback(table, existing_feedback_id, user_name) ==
    [i \in 1..Len(table) |->
        IF table[i].id = existing_feedback_id /\ table[i].user_name = user_name
        THEN [table[i] EXCEPT !.logged_at = Now(table)]
        ELSE table[i]]

\* feedback_window.py lines 46-59: INSERT INTO report_human_feedback
InsertFeedback(table, user_name, report_execution_id) ==
    Append(table, [id                      |-> Len(table) + 1,
                   user_name               |-> user_name,
                   report_n8n_execution_id |-> report_execution_id,
                   logged_at               |-> Now(table)])

\* feedback_window.py lines 28-59: the table after the statement;
\* existing_feedback_id 0 stands for None (line 30 tests its truth)
save_report_feedback(table, user_name, report_execution_id, existing_feedback_id) ==
    IF existing_feedback_id # 0
    THEN UpdateFeedback(table, existing_feedback_id, user_name)
    ELSE InsertFeedback(table, user_name, report_execution_id)

NoRun == [pc |-> "idle", logged_in_user |-> None, report_execution_id |-> "",
          existing_feedback |-> None]

(***************************************************************************)
(* State.  Under Spec every call is made from the initial state; under     *)
(* SpecReuse one preprocessor serves several calls of chunk_text in a row; *)
(* under SpecCollision it serves a document and its copy without strings   *)
(* of the separator's form; SpecEndpoint is one request to the endpoint;   *)
(* SpecFeedback is the dashboard used from several browser sessions.       *)
(***************************************************************************)
VARIABLES
    pc,              \* "idle", or the place the running call has reached
    call,            \* the call running, or the last one made
    outcome,         \* "none" | "returned" | the exception that ended the call
    max_chunk_size,  \* self.max_chunk_size of the preprocessor in use
    overlap_size,    \* self.overlap_size
    page_texts,      \* chunk_text's argument
    combined_text,   \* chunk_text's locals
    current_pos,
    chunks,
    spans,           \* history: the span and break kind of every iteration
    chunk_dicts,     \* chunk_text's return value
    file,            \* preprocess_pdf_file's file_path: the file it names
    batch_size,      \* the batch_size argument of the running call
    gen,             \* the generator _batched_chunks returned
    yielded,         \* history: the (batch_index, slice) pairs it yielded
    totals,          \* preprocess_pdf_file's total_chunks, total_characters, total_batches
    batch_results,   \* preprocess_pdf_file's batch_results
    aggregated_result, \* preprocess_pdf_file's return value
    stages,          \* history: the stages preprocess_pdf_file went through
    completed,       \* history: argument and result of every chunk_text call that
                     \* returned, in order (direct calls on the preprocessor in use)
    endpoint,        \* preprocess_pdf_endpoint: the request, the locals and the response
    session_state,   \* st.session_state["feedback_user"] of every browser session
    report_human_feedback, \* the rows of table report_human_feedback
    run,             \* the script run of every session: its place and its locals
    last_attempt     \* history: the last login submitted

chunker_vars == <<max_chunk_size, overlap_size, page_texts, combined_text,
                  current_pos, chunks, spans, chunk_dicts>>
batcher_vars == <<gen, yielded>>
file_vars == <<file, batch_size, totals, batch_results, aggregated_result, stages>>
endpoint_vars == <<endpoint>>
feedback_vars == <<session_state, report_human_feedback, run, last_attempt>>
web_vars == <<endpoint_vars, feedback_vars>>
vars == <<pc, call, outcome, chunker_vars, batcher_vars, file_vars, completed, web_vars>>

NoFile == PdfFile("", FALSE, FALSE, <<>>)
NoTotals == [total_chunks |-> 0, total_characters |-> 0, total_batches |-> 0]

Init ==
    /\ pc = "idle"
    /\ call = "none"
    /\ outcome = "none"
    /\ max_chunk_size = MAX_CHUNK_SIZE
    /\ overlap_size = CHUNK_OVERLAP
    /\ page_texts = <<>>
    /\ combined_text = <<>>
    /\ current_pos = 0
    /\ chunks = <<>>
    /\ spans = <<>>
    /\ chunk_dicts = <<>>
    /\ file = NoFile
    /\ batch_size = DEFAULT_BATCH_SIZE
    /\ gen = NoGenerator
    /\ yielded = <<>>
    /\ totals = NoTotals
    /\ batch_results = <<>>
    /\ aggregated_result = NoResult
    /\ stages = <<>>
    /\ completed = <<>>
    /\ endpoint = NoRequest
    /\ session_state = [s \in Sessions |-> None]
    /\ report_human_feedback = <<>>
    /\ run = [s \in Sessions |-> NoRun]
    /\ last_attempt = None

(***************************************************************************)
(* chunk_text, lines 103-132: from entry to the first test of the loop.    *)
(* after is the place reached when chunk_text returns.                     *)
(***************************************************************************)
\* mutant: the list of chunks is kept from one call to the next
EnterChunkTextKeepingChunks(pages, max, overlap, after) ==
    /\ max_chunk_size' = max
    /\ overlap_size' = overlap
    /\ page_texts' = pages
    /\ current_pos' = 0
    /\ chunks' = chunks
    /\ spans' = <<>>
    /\ IF NothingToChunk(pages)
       THEN /\ combined_text' = <<>>
            /\ chunk_dicts' = <<>>
            /\ pc' = after
       ELSE /\ combined_text' = CombinedText(pages)
            /\ IF FitsOneChunk(CombinedText(pages), max)
               THEN chunk_dicts' = SingleChunk(pages, CombinedText(pages)) /\ pc' = after
               ELSE chunk_dicts' = <<>> /\ pc' = "split"

EnterChunkText(pages, max, overlap, after) ==
    /\ max_chunk_size' = max
    /\ overlap_size' = overlap
    /\ page_texts' = pages
    /\ current_pos' = 0
    /\ chunks' = <<>>
    /\ spans' = <<>>
    /\ IF NothingToChunk(pages)
       THEN /\ combined_text' = <<>>
            /\ chunk_dicts' = <<>>
            /\ pc' = after
       ELSE /\ combined_text' = CombinedText(pages)
            /\ IF FitsOneChunk(CombinedText(pages), max)
               THEN chunk_dicts' = SingleChunk(pages, CombinedText(pages)) /\ pc' = after
               ELSE chunk_dicts' = <<>> /\ pc' = "split"

\* a direct call returns: line 104, 117 or 200
ChunkTextReturns(pages, result) == Append(completed, [pages |-> pages, result |-> result])

\* PDFPreprocessor(max, overlap).chunk_text(pages), pages from page_lists
NewPreprocessorCall(page_lists) ==
    /\ pc = "idle" /\ call = "none"
    /\ \E pages \in page_lists, max \in MaxChunkSizes, overlap \in OverlapSizes :
          EnterChunkText(pages, max, overlap, "idle")
    /\ call' = "chunk_text"
    /\ outcome' = IF pc' = "idle" THEN "returned" ELSE "none"
    /\ completed' = IF pc' = "idle" THEN ChunkTextReturns(page_texts', chunk_dicts')
                                    ELSE completed
    /\ UNCHANGED <<batcher_vars, file_vars>>
    /\ UNCHANGED web_vars

CallChunkText == NewPreprocessorCall(PageLists)

\* the first of several calls on a preprocessor
CallChunkTextFirst == NewPreprocessorCall(ReusePageLists)

\* a further chunk_text(pages) on the preprocessor whose call has returned:
\* self.max_chunk_size and self.overlap_size are what they were
CallChunkTextAgain ==
    /\ pc = "idle" /\ call = "chunk_text" /\ outcome = "returned"
    /\ Len(completed) < MaxCalls
    /\ \E pages \in ReusePageLists :
          EnterChunkText(pages, max_chunk_size, overlap_size, "idle")
    /\ outcome' = IF pc' = "idle" THEN "returned" ELSE "none"
    /\ completed' = IF pc' = "idle" THEN ChunkTextReturns(page_texts', chunk_dicts')
                                    ELSE completed
    /\ UNCHANGED <<call, batcher_vars, file_vars>>
    /\ UNCHANGED web_vars

\* one iteration of the while loop, lines 134-169
SplitStep ==
    /\ pc = "split"
    /\ current_pos < Len(combined_text)
    /\ max_chunk_size > 0 \/ Len(spans) < MaxStalledIterations
    /\ LET bp        == BreakPoint(combined_text, current_pos, max_chunk_size)
           chunk_end == bp.chunk_end
           chunk     == strip(Slice(combined_text, current_pos, chunk_end))
       IN  /\ chunks' = KeepChunk(chunks, chunk)
           /\ spans' = Append(spans, [start |-> current_pos, end |-> chunk_end,
                                      kind |-> bp.kind, kept |-> chunk # <<>>])
           /\ current_pos' = NextPos(current_pos, chunk_end, overlap_size)
    /\ UNCHANGED <<pc, call, outcome, max_chunk_size, overlap_size, page_texts,
                   combined_text, chunk_dicts, batcher_vars, file_vars, completed>>
    /\ UNCHANGED web_vars

\* the loop ends; lines 171-200 build the chunk dictionaries and return
SplitDone ==
    /\ pc = "split"
    /\ ~(current_pos < Len(combined_text))
    /\ chunk_dicts' = ChunkDicts(chunks)
    /\ pc' = IF call = "chunk_text" THEN "idle" ELSE "chunked"
    /\ outcome' = IF call = "chunk_text" THEN "returned" ELSE outcome
    /\ completed' = IF call = "chunk_text" THEN ChunkTextReturns(page_texts, chunk_dicts')
                                           ELSE completed
    /\ UNCHANGED <<call, max_chunk_size, overlap_size, page_texts, combined_text,
                   current_pos, chunks, spans, batcher_vars, file_vars>>
    /\ UNCHANGED web_vars

(***************************************************************************)
(* list(_batched_chunks(chunks, batch_size)): the generator driven to its  *)
(* end by a caller that only collects what it yields.                      *)
(***************************************************************************)
CallBatchedChunks ==
    /\ pc = "idle" /\ call = "none"
    /\ \E chunk_list \in ChunkLists, size \in BatchSizes :
          /\ gen' = NewGenerator(chunk_list, size)
          /\ batch_size' = size
    /\ yielded' = <<>>
    /\ pc' = "iterating"
    /\ call' = "_batched_chunks"
    /\ outcome' = "none"
    /\ UNCHANGED <<chunker_vars, file, totals, batch_results, aggregated_result, stages,
                   completed>>
    /\ UNCHANGED web_vars

BatchedChunksNext ==
    /\ pc = "iterating"
    /\ LET r == GenNext(gen)
       IN  /\ gen' = r.gen
           /\ IF r.event = "yield"
              THEN /\ yielded' = Append(yielded, <<r.batch_index, r.batch>>)
                   /\ UNCHANGED <<pc, outcome>>
              ELSE /\ pc' = "idle"
                   /\ outcome' = IF r.event = "StopIteration" THEN "returned" ELSE r.event
                   /\ UNCHANGED yielded
    /\ UNCHANGED <<call, chunker_vars, file_vars, completed>>
    /\ UNCHANGED web_vars

(***************************************************************************)
(* preprocess_pdf_file(file_path, batch_size=batch_size).                  *)
(***************************************************************************)
\* lines 57-61: the existence check, then preprocess_pdf (pdf_preprocessor.py
\* lines 281-282, 251-254): a new PDFPreprocessor(MAX_CHUNK_SIZE), extraction of
\* the page texts, and chunk_text up to its loop
EnterPreprocessPdfFile(f, size) ==
    /\ file' = f
    /\ batch_size' = size
    /\ IF ~PathExists(f)
       THEN /\ outcome' = "FileNotFoundError"
            /\ pc' = "idle"
            /\ stages' = <<"exists">>
            /\ UNCHANGED chunker_vars
       ELSE IF ~f.readable
       THEN /\ outcome' = "Exception"
            /\ pc' = "idle"
            /\ stages' = <<"exists", "extract_text_from_pdf">>
            /\ UNCHANGED chunker_vars
       ELSE /\ outcome' = "none"
            /\ stages' = <<"exists", "extract_text_from_pdf", "chunk_text">>
            /\ EnterChunkText(ExtractText(f), MAX_CHUNK_SIZE, CHUNK_OVERLAP, "chunked")
    /\ call' = "preprocess_pdf_file"
    /\ batch_results' = <<>>
    /\ yielded' = <<>>
    /\ totals' = NoTotals
    /\ gen' = NoGenerator
    /\ aggregated_result' = NoResult
    /\ UNCHANGED completed

\* a call of preprocess_pdf_file on its own
PreprocessPdfFile ==
    /\ pc = "idle" /\ call = "none"
    /\ \E f \in PdfFiles, size \in BatchSizes : EnterPreprocessPdfFile(f, size)
    /\ UNCHANGED web_vars

\* lines 62-67: the totals, then the generator is created
Aggregate ==
    /\ pc = "chunked"
    /\ LET total_chunks == Len(chunk_dicts)
       IN  IF total_chunks # 0 /\ batch_size = 0
           THEN /\ outcome' = "ZeroDivisionError"
                /\ pc' = "idle"
                /\ stages' = Append(stages, "totals")
                /\ UNCHANGED <<totals, gen>>
           ELSE /\ totals' = [total_chunks     |-> total_chunks,
                              total_characters |-> SumCharCount(chunk_dicts, total_chunks),
                              total_batches    |-> TotalBatches(total_chunks, batch_size)]
                /\ gen' = NewGenerator(chunk_dicts, batch_size)
                /\ pc' = "batching"
                /\ stages' = Append(stages, "totals")
                /\ UNCHANGED outcome
    /\ UNCHANGED <<call, chunker_vars, file, batch_size, yielded, batch_results,
                   aggregated_result, completed>>
    /\ UNCHANGED web_vars

\* lines 67-85: one turn of the for loop; lines 87-104 when the generator ends
BatchLoopStep ==
    /\ pc = "batching"
    /\ LET r == GenNext(gen)
       IN  /\ gen' = r.gen
           /\ IF r.event = "yield"
              THEN /\ yielded' = Append(yielded, <<r.batch_index, r.batch>>)
                   /\ batch_results' = Append(batch_results,
                          BatchPayload(r.batch_index, r.batch, batch_size,
                                       totals.total_batches))
                   /\ UNCHANGED <<pc, outcome, aggregated_result, stages>>
              ELSE IF r.event = "StopIteration"
              THEN /\ aggregated_result' =
                          AggregatedResult(file, batch_size, totals.total_chunks,
                                           totals.total_characters, totals.total_batches,
                                           batch_results)
                   /\ outcome' = "returned"
                   /\ pc' = "idle"
                   /\ stages' = Append(stages, "batched")
                   /\ UNCHANGED <<yielded, batch_results>>
              ELSE /\ outcome' = r.event
                   /\ pc' = "idle"
                   /\ stages' = Append(stages, "_batched_chunks")
                   /\ UNCHANGED <<yielded, batch_results, aggregated_result>>
    /\ UNCHANGED <<call, chunker_vars, file, batch_size, totals, completed>>
    /\ UNCHANGED web_vars

Next ==
    \/ CallChunkText
    \/ SplitStep
    \/ SplitDone
    \/ CallBatchedChunks
    \/ BatchedChunksNext
    \/ PreprocessPdfFile
    \/ Aggregate
    \/ BatchLoopStep

Spec == Init /\ [][Next]_vars

(***************************************************************************)
(* One preprocessor used for up to MaxCalls calls of chunk_text in a row.  *)
(***************************************************************************)
ReuseNext ==
    \/ CallChunkTextFirst
    \/ CallChunkTextAgain
    \/ SplitStep
    \/ SplitDone

SpecReuse == Init /\ [][ReuseNext]_vars

(***************************************************************************)
(* A document whose own text holds a string of the separator's form, then  *)
(* the same document with that string made to differ from the form, given  *)
(* to the same preprocessor.                                               *)
(***************************************************************************)
\* the text "--- PAGE BREAK [n] ---" as a page's own content
MarkerFormText(n) == MarkerHead \o IntToStr(n) \o MarkerTail

CollidingTexts ==
    {<<>>,
     <<"a">>,
     MarkerFormText(7),
     <<"a", " ">> \o MarkerFormText(0) \o <<" ", "a">>,
     <<"a", "\n">> \o MarkerFormText(12) \o <<".", " ", "a">>}

CollidingPageLists == UNION {[1..p -> CollidingTexts] : p \in 1..MaxPages}

\* text t with the "[" of every string of the separator's form replaced by
\* "(": the same length, the same white space, no string of the form
WithoutMarkerForm(t) ==
    [i \in 1..Len(t) |->
        IF \E m \in RegexMatches(t) : i = m + Len(MarkerHead) THEN "(" ELSE t[i]]

CallChunkTextColliding == NewPreprocessorCall(CollidingPageLists)

\* chunk_text on the same preprocessor, on the pages of the call that
\* returned with their strings of the separator's form replaced
CallChunkTextReplaced ==
    /\ pc = "idle" /\ call = "chunk_text" /\ outcome = "returned"
    /\ Len(completed) = 1
    /\ EnterChunkText([i \in 1..Len(page_texts) |-> WithoutMarkerForm(page_texts[i])],
                      max_chunk_size, overlap_size, "idle")
    /\ outcome' = IF pc' = "idle" THEN "returned" ELSE "none"
    /\ completed' = IF pc' = "idle" THEN ChunkTextReturns(page_texts', chunk_dicts')
                                    ELSE completed
    /\ UNCHANGED <<call, batcher_vars, file_vars>>
    /\ UNCHANGED web_vars

CollisionNext ==
    \/ CallChunkTextColliding
    \/ CallChunkTextReplaced
    \/ SplitStep
    \/ SplitDone

SpecCollision == Init /\ [][CollisionNext]_vars

(***************************************************************************)
(* preprocess_pdf_endpoint, llm_judges_router.py lines 69-92.              *)
(***************************************************************************)
\* a request arrives: all_parsed_data = [] (line 72)
PreprocessPdfEndpoint ==
    /\ pc = "idle" /\ call = "none"
    /\ endpoint = NoRequest
    /\ \E req \in Requests : endpoint' = [NoRequest EXCEPT !.pc = "tickers", !.req = req]
    /\ UNCHANGED <<pc, call, outcome, chunker_vars, batcher_vars, file_vars, completed,
                   feedback_vars>>

\* line 75, one turn of the loop over the tickers: the directory is listed
\* (lines 76-78); line 87 when the tickers are used up
EndpointNextTicker ==
    /\ endpoint.pc = "tickers"
    /\ LET tickers == endpoint.req.pdf_file_company_ticker
           i       == endpoint.company_idx
       IN  IF i = Len(tickers)
           THEN endpoint' = [endpoint EXCEPT !.pc = "done",
                                             !.response = OkResponse(endpoint.all_parsed_data)]
           ELSE IF ~DirExists(tickers[i + 1])
           THEN endpoint' = [endpoint EXCEPT
                                !.pc = "done",
                                !.response = HTTPException(ExceptionStatus("FileNotFoundError"))]
           ELSE endpoint' = [endpoint EXCEPT !.pc = "files",
                                             !.pdf_file_paths = IterDir(tickers[i + 1]),
                                             !.file_idx = 0]
    /\ UNCHANGED <<pc, call, outcome, chunker_vars, batcher_vars, file_vars, completed,
                   feedback_vars>>

\* line 79, one turn of the loop over the files: the arguments are evaluated
\* (report_type[company_idx] can raise IndexError) and preprocess_pdf_file is
\* entered with its default batch_size (lines 81-85)
EndpointNextFile ==
    /\ endpoint.pc = "files"
    /\ pc = "idle"
    /\ LET i == endpoint.company_idx
           k == endpoint.file_idx
       IN  IF k = Len(endpoint.pdf_file_paths)
           THEN /\ endpoint' = [endpoint EXCEPT !.pc = "tickers", !.company_idx = i + 1]
                /\ UNCHANGED <<pc, call, outcome, chunker_vars, batcher_vars, file_vars,
                               completed>>
           ELSE IF i + 1 > Len(endpoint.req.report_type)
           THEN /\ endpoint' = [endpoint EXCEPT
                                   !.pc = "done",
                                   !.response = HTTPException(ExceptionStatus("IndexError"))]
                /\ UNCHANGED <<pc, call, outcome, chunker_vars, batcher_vars, file_vars,
                               completed>>
           ELSE /\ endpoint' = [endpoint EXCEPT !.pc = "waiting"]
                /\ EnterPreprocessPdfFile(endpoint.pdf_file_paths[k + 1], DEFAULT_BATCH_SIZE)
    /\ UNCHANGED feedback_vars

\* preprocess_pdf_file has ended: its dictionary, which carries the
\* company_ticker and report_type it was given (pdf_file_preprocess.py lines
\* 90-91), is appended (line 80), or its exception is caught (lines 88-92)
EndpointCollect ==
    /\ endpoint.pc = "waiting"
    /\ pc = "idle" /\ outcome # "none"
    /\ LET i == endpoint.company_idx
       IN  IF outcome = "returned"
           THEN endpoint' =
                   [endpoint EXCEPT
                       !.pc = "files",
                       !.file_idx = @ + 1,
                       !.all_parsed_data =
                           Append(@, [aggregated_result EXCEPT
                                         !.company_ticker =
                                             endpoint.req.pdf_file_company_ticker[i + 1],
                                         !.report_type = endpoint.req.report_type[i + 1]])]
           ELSE endpoint' = [endpoint EXCEPT
                                !.pc = "done",
                                !.response = HTTPException(ExceptionStatus(outcome))]
    /\ UNCHANGED <<pc, call, outcome, chunker_vars, batcher_vars, file_vars, completed,
                   feedback_vars>>

EndpointNext ==
    \/ PreprocessPdfEndpoint
    \/ EndpointNextTicker
    \/ EndpointNextFile
    \/ EndpointCollect
    \/ SplitStep
    \/ SplitDone
    \/ Aggregate
    \/ BatchLoopStep

SpecEndpoint == Init /\ [][EndpointNext]_vars

(***************************************************************************)
(* The dashboard: one script run at a time in every session; the runs of   *)
(* different sessions interleave at their database statements.             *)
(***************************************************************************)
\* main_page.py lines 19-59, the login form submitted (shown only when no
\* user is logged in)
Login(s) ==
    /\ run[s].pc = "idle"
    /\ session_state[s] = None
    /\ \E user_name \in UserNames, user_token \in UserTokens, db_ok \in BOOLEAN :
          /\ last_attempt' = [session |-> s, user_name |-> user_name,
                              user_token |-> user_token, db_ok |-> db_ok]
          /\ IF strip(user_name) = <<>> \/ strip(user_token) = <<>>
             THEN UNCHANGED session_state
             ELSE LET user == authenticate_user(strip(user_name), strip(user_token), db_ok)
                  IN  IF user # None
                      THEN session_state' = [session_state EXCEPT ![s] = user]
                      ELSE UNCHANGED session_state
    /\ UNCHANGED <<pc, call, outcome, chunker_vars, batcher_vars, file_vars, completed,
                   endpoint_vars, report_human_feedback, run>>

\* main_page.py lines 21-27 and utils.py lines 33-36, the Logout button
Logout(s) ==
    /\ run[s].pc = "idle"
    /\ session_state[s] # None
    /\ session_state' = [session_state EXCEPT ![s] = None]
    /\ UNCHANGED <<pc, call, outcome, chunker_vars, batcher_vars, file_vars, completed,
                   endpoint_vars, report_human_feedback, run, last_attempt>>

\* feedback_window.py lines 84-179: a run renders the form for a report; the
\* row found for the logged-in user is kept in the run's local
\* existing_feedback; the run goes on to save when the form was submitted
\* with a comment
RenderFeedbackForm(s) ==
    /\ run[s].pc = "idle"
    /\ LET logged_in_user == session_state[s]
       IN  IF logged_in_user = None
           THEN UNCHANGED run
           ELSE \E report_execution_id \in Reports, db_ok \in BOOLEAN, submitted \in BOOLEAN :
                   LET existing_feedback ==
                           get_existing_feedback(report_human_feedback,
                                                 logged_in_user.user_name,
                                                 report_execution_id, db_ok)
                   IN  IF submitted
                       THEN run' = [run EXCEPT ![s] =
                                       [pc                  |-> "saving",
                                        logged_in_user      |-> logged_in_user,
                                        report_execution_id |-> report_execution_id,
                                        existing_feedback   |-> existing_feedback]]
                       ELSE UNCHANGED run
    /\ UNCHANGED <<pc, call, outcome, chunker_vars, batcher_vars, file_vars, completed,
                   endpoint_vars, session_state, report_human_feedback, last_attempt>>

\* feedback_window.py lines 181-200: the same run saves; an exception of the
\* database is caught (lines 198-200) and nothing is written
SaveReportFeedback(s) ==
    /\ run[s].pc = "saving"
    /\ Now(report_human_feedback) <= MaxWrites
    /\ \E db_ok \in BOOLEAN :
          LET existing_feedback_id ==
                  IF run[s].existing_feedback # None THEN run[s].existing_feedback.id
                  ELSE 0
          IN  IF db_ok
              THEN report_human_feedback' =
                      save_report_feedback(report_human_feedback,
                                           run[s].logged_in_user.user_name,
                                           run[s].report_execution_id,
                                           existing_feedback_id)
              ELSE UNCHANGED report_human_feedback
    /\ run' = [run EXCEPT ![s] = NoRun]
    /\ UNCHANGED <<pc, call, outcome, chunker_vars, batcher_vars, file_vars, completed,
                   endpoint_vars, session_state, last_attempt>>

FeedbackNext ==
    \E s \in Sessions :
        \/ Login(s)
        \/ Logout(s)
        \/ RenderFeedbackForm(s)
        \/ SaveReportFeedback(s)

SpecFeedback == Init /\ [][FeedbackNext]_vars

(***************************************************************************)
(* Properties.                                                             *)
(***************************************************************************)
Went(stage) == \E i \in 1..Len(stages) : stages[i] = stage

\* chunk_text was entered by the running (or last) call
EnteredChunkText ==
    call = "chunk_text" \/ (call = "preprocess_pdf_file" /\ Went("chunk_text"))

\* ... and has returned its chunk dictionaries
ChunkTextReturned == EnteredChunkText /\ pc # "split"

\* the page list is empty or holds only empty strings
AllPagesEmpty == \A i \in 1..Len(page_texts) : Len(page_texts[i]) = 0

\* every window that stopped before the end of the text held a separator
EveryWindowHasBreak == \A i \in 1..Len(spans) : spans[i].kind # "none"

\* C1: when every span of the splitting loop found a break point inside its
\* window (max_chunk_size > 0, overlap_size >= 0), every chunk chunk_text returns,
\* from the shortcut or from the loop, has char_count <= max_chunk_size.
C1_BoundedChunkSize ==
    (ChunkTextReturned /\ max_chunk_size > 0 /\ overlap_size >= 0 /\ EveryWindowHasBreak)
        => \A i \in 1..Len(chunk_dicts) :
              /\ chunk_dicts[i].char_count <= max_chunk_size
              /\ Len(chunk_dicts[i].chunk_text) = chunk_dicts[i].char_count

C1_Witness ==
    /\ call = "chunk_text"
    /\ ChunkTextReturned
    /\ EveryWindowHasBreak
    /\ Len(spans) >= 3
    /\ \E i \in 1..Len(spans) : spans[i].kind = "space"
    /\ \E i \in 1..Len(spans) : spans[i].kind = "paragraph"
    /\ \E i \in 1..Len(chunk_dicts) : chunk_dicts[i].char_count = max_chunk_size

\* C2: in a result of n chunks the chunk_index values are 0, 1, ..., n-1 in
\* output order, every chunk carries total_chunks = n, and is_last is true on
\* the chunk numbered n-1 and on no other.
C2_ChunkIndexSequence ==
    ChunkTextReturned
        => \A i \in 1..Len(chunk_dicts) :
              /\ chunk_dicts[i].chunk_index = i - 1
              /\ chunk_dicts[i].total_chunks = Len(chunk_dicts)
              /\ chunk_dicts[i].is_last = (i = Len(chunk_dicts))

C2_Witness ==
    /\ ChunkTextReturned
    /\ Len(chunk_dicts) >= 3
    /\ \E i \in 1..Len(spans) : ~spans[i].kept

\* C3: a page list with a non-empty page whose concatenated text is no longer
\* than max_chunk_size (equal included) gives exactly one chunk: the whole
\* concatenated text, chunk_index 0, total_chunks 1, is_last true, page_index 0;
\* the splitting loop does not run.
C3_SingleChunkShortcut ==
    (EnteredChunkText /\ ~AllPagesEmpty /\ Len(combined_text) <= max_chunk_size)
        => /\ pc # "split"
           /\ spans = <<>>
           /\ Len(chunk_dicts) = 1
           /\ chunk_dicts[1].chunk_text = combined_text
           /\ chunk_dicts[1].chunk_index = 0
           /\ chunk_dicts[1].total_chunks = 1
           /\ chunk_dicts[1].is_last = TRUE
           /\ chunk_dicts[1].page_index = 0

C3_Witness ==
    /\ EnteredChunkText
    /\ Len(page_texts) >= 2
    /\ ~AllPagesEmpty
    /\ Len(combined_text) = max_chunk_size
    /\ Len(chunk_dicts) = 1

\* C4: chunk_text returns the empty sequence when the page list is empty or
\* every page is the empty string; never a single chunk with empty text.
C4_EmptyInputNoChunks ==
    (EnteredChunkText /\ AllPagesEmpty)
        => (chunk_dicts = <<>> /\ pc # "split" /\ spans = <<>>)

C4_Witness ==
    /\ call = "chunk_text"
    /\ outcome = "returned"
    /\ Len(page_texts) >= 2
    /\ AllPagesEmpty

\* C5 (as claimed): every chunk chunk_text returns, on either path, has text
\* that is non-empty after trimming whitespace.
C5_NoBlankChunk ==
    ChunkTextReturned
        => \A i \in 1..Len(chunk_dicts) : strip(chunk_dicts[i].chunk_text) # <<>>

\* the slices yielded so far, concatenated
RECURSIVE YieldedChunks(_)
YieldedChunks(k) == IF k = 0 THEN <<>> ELSE YieldedChunks(k - 1) \o yielded[k][2]

\* ceil(n / b) for n >= 0, b > 0: the least q with q * b >= n
CeilDiv(n, b) == CHOOSE q \in 0..n : q * b >= n /\ \A r \in 0..(q - 1) : r * b < n

\* C6: for batch_size > 0 the batches are contiguous slices of the chunk list
\* in order: batch_index runs 0, 1, ...; the batches concatenated give the chunk
\* list; every batch but the last holds batch_size chunks and the last 1 to
\* batch_size; their number is total_batches = ceil(chunk_count / batch_size),
\* 0 when there are no chunks.
C6_BatchPartition ==
    (gen.pc = "finished" /\ gen.batch_size > 0)
        => LET n == Len(gen.chunks)
               b == gen.batch_size
               k == Len(yielded)
           IN  /\ \A i \in 1..k : yielded[i][1] = i - 1
               /\ YieldedChunks(k) = gen.chunks
               /\ \A i \in 1..(k - 1) : Len(yielded[i][2]) = b
               /\ k > 0 => Len(yielded[k][2]) \in 1..b
               /\ k = CeilDiv(n, b)
               /\ n = 0 => k = 0
               /\ call = "preprocess_pdf_file" =>
                     /\ gen.chunks = chunk_dicts
                     /\ outcome = "returned"
                     /\ aggregated_result.total_batches = k
                     /\ aggregated_result.total_chunks = n
                     /\ Len(aggregated_result.batch_results) = k
                     /\ \A i \in 1..k :
                           LET batch == aggregated_result.batch_results[i]
                           IN  /\ batch.batch_index = i - 1
                               /\ batch.chunk_count = Len(yielded[i][2])
                               /\ batch.chunks =
                                     [j \in 1..Len(yielded[i][2]) |->
                                         ChunkView(yielded[i][2][j])]

C6_Witness ==
    /\ call = "preprocess_pdf_file"
    /\ outcome = "returned"
    /\ batch_size = 3
    /\ aggregated_result.total_chunks = 7
    /\ [i \in 1..Len(batch_results) |-> batch_results[i].chunk_count] = <<3, 3, 1>>

\* C7: for a non-empty chunk list and batch_size > 0, exactly one batch of
\* batch_results has is_last_batch = true: the one with the highest batch_index.
C7_OneLastBatch ==
    (call = "preprocess_pdf_file" /\ outcome = "returned"
        /\ totals.total_chunks > 0 /\ batch_size > 0)
        => LET results == aggregated_result.batch_results
               k       == Len(results)
           IN  /\ k >= 1
               /\ \A i \in 1..k : results[i].is_last_batch = (i = k)
               /\ \A i \in 1..k : results[i].batch_index <= results[k].batch_index
               /\ Cardinality({i \in 1..k : results[i].is_last_batch}) = 1

C7_Witness ==
    /\ call = "preprocess_pdf_file"
    /\ outcome = "returned"
    /\ Len(aggregated_result.batch_results) >= 3
    /\ aggregated_result.batch_results[3].is_last_batch

\* C8: _batched_chunks with batch_size <= 0 fails with ValueError and yields
\* no batch, for every chunk list, the empty one included.
C8_BatcherRejectsBatchSize ==
    (call = "_batched_chunks" /\ batch_size <= 0)
        => /\ yielded = <<>>
           /\ gen.pc \in {"unstarted", "raised"}
           /\ pc = "idle" => outcome = "ValueError"

C8_Witness ==
    /\ call = "_batched_chunks"
    /\ pc = "idle"
    /\ batch_size = 0
    /\ gen.chunks = <<>>
    /\ outcome = "ValueError"

\* C9 (as claimed): preprocess_pdf_file on an existing (readable) file with
\* batch_size <= 0 ends in the error the batcher raises, ValueError, whatever
\* the number of chunks, and returns no aggregated result.
C9_BadBatchSizeIsValueError ==
    (call = "preprocess_pdf_file" /\ pc = "idle" /\ file.exists /\ file.readable
        /\ batch_size <= 0)
        => (outcome = "ValueError" /\ aggregated_result = NoResult)

\* C10 (as claimed): with batch_size <= 0 the configuration failure (the
\* batcher's ValueError) is signalled before page-text extraction starts and
\* before chunk_text runs.
C10_FailsBeforeExtraction ==
    (call = "preprocess_pdf_file" /\ batch_size <= 0 /\ outcome = "ValueError")
        => (~Went("extract_text_from_pdf") /\ ~Went("chunk_text"))

\* C11 (as claimed): chunk_text with max_chunk_size <= 0 and at least one
\* non-empty page fails at once with a configuration error: it never runs an
\* iteration of the splitting loop with a non-positive window, and it
\* produces no chunk.
C11_RejectsNonPositiveMaxChunkSize ==
    (EnteredChunkText /\ max_chunk_size <= 0 /\ ~AllPagesEmpty)
        => (spans = <<>> /\ chunks = <<>>)

\* C12: preprocess_pdf_file on a path that does not exist ends at once in
\* FileNotFoundError, whatever batch_size is (0 and negative included): only
\* the existence check has run, no page text was extracted, chunk_text was not
\* entered, no generator was created, no batch was built and nothing is
\* returned.
C12_NotFoundBeforeExtraction ==
    (call = "preprocess_pdf_file" /\ ~file.exists)
        => /\ outcome = "FileNotFoundError"
           /\ pc = "idle"
           /\ stages = <<"exists">>
           /\ page_texts = <<>> /\ combined_text = <<>>
           /\ spans = <<>> /\ chunks = <<>> /\ chunk_dicts = <<>>
           /\ gen = NoGenerator /\ yielded = <<>>
           /\ totals = NoTotals /\ batch_results = <<>>
           /\ aggregated_result = NoResult

C12_Witness ==
    /\ call = "preprocess_pdf_file"
    /\ ~file.exists
    /\ batch_size <= 0
    /\ outcome = "FileNotFoundError"

\* C13: extract_text_from_pdf on a document it can open returns one string per
\* page, in page order: the page's text, or "" at the page's own position when
\* extract_text returned nothing or raised; the failure of a page does not end
\* the call, and the pages after it are extracted.
C13_OneStringPerPage ==
    (call = "preprocess_pdf_file" /\ file.exists /\ file.readable)
        => /\ outcome # "Exception"
           /\ Went("chunk_text")
           /\ Len(page_texts) = Len(file.pages)
           /\ \A i \in 1..Len(file.pages) :
                 page_texts[i] = IF file.pages[i].kind = "text"
                                 THEN file.pages[i].text ELSE <<>>

C13_Witness ==
    /\ call = "preprocess_pdf_file"
    /\ Went("chunk_text")
    /\ Len(page_texts) = 3
    /\ file.pages[1].kind = "raises" /\ page_texts[1] = <<>>
    /\ file.pages[2].kind = "text" /\ page_texts[2] # <<>>
    /\ file.pages[3].kind = "none" /\ page_texts[3] = <<>>

\* the loop of chunk_text ran (the multi-chunk path) and chunk_text returned
MultiChunkResult == ChunkTextReturned /\ spans # <<>>

PageStart(pages, i) == Len(CombinedUpTo(pages, i)) - Len(pages[i])

\* the page (1-based) whose text holds position p of the concatenated text;
\* empty when p lies in a page separator
PagesHolding(pages, p) ==
    {i \in 1..Len(pages) : PageStart(pages, i) <= p /\ p < PageStart(pages, i) + Len(pages[i])}

\* the spans that became chunks, in order: the k-th is the source of chunk k-1
KeptSpans == SelectSeq(spans, LAMBDA sp : sp.kept)

\* C15 (as claimed): in a multi-chunk result the page_index of every chunk is
\* the 1-based number of the page that holds the first character of the
\* chunk's source span (spans that start inside a page separator are left out).
C15_PageIndexIsStartPage ==
    MultiChunkResult
        => \A k \in 1..Len(chunk_dicts) :
              \A i \in PagesHolding(page_texts, KeptSpans[k].start) :
                 chunk_dicts[k].page_index = i

\* the first k spans joined, each without the characters it shares with the
\* span before it
RECURSIVE SpansJoined(_)
SpansJoined(k) ==
    IF k = 0 THEN <<>>
    ELSE SpansJoined(k - 1)
         \o Slice(combined_text, IF k = 1 THEN 0 ELSE spans[k - 1].end, spans[k].end)

\* C16: on the multi-chunk path the spans taken by the
\* loop cover the concatenated text without gaps: the first starts at 0, every
\* later one starts at the end of the one before it or overlap_size before that
\* end, so two neighbours share at most overlap_size characters; when the loop
\* is over the last span ends at the end of the text, and the spans joined,
\* shared characters taken once, are the concatenated text.
C16_SpansCoverText ==
    (EnteredChunkText /\ spans # <<>>)
        => /\ spans[1].start = 0
           /\ \A k \in 1..(Len(spans) - 1) :
                 /\ spans[k + 1].start \in {spans[k].end, spans[k].end - overlap_size}
                 /\ spans[k].end - spans[k + 1].start <= overlap_size
                 /\ spans[k].end - spans[k + 1].start >= 0
           /\ ChunkTextReturned =>
                 /\ spans[Len(spans)].end = Len(combined_text)
                 /\ SpansJoined(Len(spans)) = combined_text

C16_Witness ==
    /\ MultiChunkResult
    /\ overlap_size > 0
    /\ Len(spans) >= 3
    /\ \E k \in 1..(Len(spans) - 1) : spans[k + 1].start = spans[k].end - overlap_size
    /\ \E k \in 1..(Len(spans) - 1) : spans[k + 1].start = spans[k].end
    /\ \E k \in 1..Len(spans) : ~spans[k].kept

\* chunk_char_count summed over the first n chunks of a batch
RECURSIVE BatchCharCount(_, _)
BatchCharCount(batch, n) ==
    IF n = 0 THEN 0 ELSE BatchCharCount(batch, n - 1) + batch.chunks[n].chunk_char_count

\* over the first k batches: chunk_char_count of all their chunks, and chunk_count
RECURSIVE BatchesCharCount(_, _)
BatchesCharCount(results, k) ==
    IF k = 0 THEN 0
    ELSE BatchesCharCount(results, k - 1) + BatchCharCount(results[k], Len(results[k].chunks))

RECURSIVE BatchesChunkCount(_, _)
BatchesChunkCount(results, k) ==
    IF k = 0 THEN 0 ELSE BatchesChunkCount(results, k - 1) + results[k].chunk_count

\* C17: in the result preprocess_pdf_file returns, summary.total_characters is
\* the sum of chunk_char_count over all chunks of all batches (an overlap is
\* counted in every chunk that holds it), summary.chunks_processed =
\* total_chunks = the sum of chunk_count over the batches, and
\* summary.batches_sent = total_batches = the number of entries of batch_results.
C17_SummaryTotals ==
    (call = "preprocess_pdf_file" /\ outcome = "returned")
        => LET r == aggregated_result
               k == Len(r.batch_results)
           IN  /\ r.summary.total_characters = BatchesCharCount(r.batch_results, k)
               /\ r.summary.chunks_processed = r.total_chunks
               /\ r.total_chunks = BatchesChunkCount(r.batch_results, k)
               /\ r.summary.batches_sent = r.total_batches
               /\ r.total_batches = k

C17_Witness ==
    /\ call = "preprocess_pdf_file"
    /\ outcome = "returned"
    /\ batch_size = 2
    /\ aggregated_result.summary.chunks_processed = 5
    /\ aggregated_result.summary.batches_sent = 3
    /\ aggregated_result.summary.total_characters > Len(combined_text)

\* calls of chunk_text on one preprocessor that were given equal page lists
\* returned equal chunk sequences
CompletedCallsAgree ==
    \A i, j \in 1..Len(completed) :
        completed[i].pages = completed[j].pages => completed[i].result = completed[j].result

\* C18: chunk_text keeps no state from one call to another: while a
\* preprocessor is in use its max_chunk_size and overlap_size stay what they
\* were, a running call leaves its page list as it was given, and calls with
\* equal page lists return equal chunk sequences whatever calls came before or
\* in between.
C18_ChunkTextStateless ==
    /\ []CompletedCallsAgree
    /\ [][call = "chunk_text" =>
             /\ max_chunk_size' = max_chunk_size
             /\ overlap_size' = overlap_size
             /\ pc = "split" => page_texts' = page_texts]_vars

C18_Witness ==
    /\ Len(completed) = 3
    /\ completed[1].pages = completed[3].pages
    /\ completed[2].pages # completed[1].pages
    /\ Len(completed[3].result) >= 2
    /\ Len(completed[2].result) >= 2
    /\ completed[2].result[Len(completed[2].result)].page_index = 2
    /\ completed[3].result[1].page_index = 1
    /\ completed[3].result[2].page_index = 2

\* the places after start where separator sub lies wholly before window_end
SeparatorsIn(sub, start, window_end) ==
    {i \in (start + 1)..(window_end - Len(sub)) : StartsAt(combined_text, sub, i)}

\* where the span from start must end
ExpectedEnd(start) ==
    LET w          == start + max_chunk_size
        paragraphs == SeparatorsIn(ParagraphBreak, start, w)
        newlines   == SeparatorsIn(<<"\n">>, start, w)
        sentences  == SeparatorsIn(<<".", " ">>, start, w)
        spaces     == SeparatorsIn(<<" ">>, start, w)
    IN  IF w >= Len(combined_text) THEN Len(combined_text)
        ELSE IF paragraphs # {} THEN SetMax(paragraphs) + 2
        ELSE IF newlines # {} THEN SetMax(newlines) + 1
        ELSE IF sentences # {} THEN SetMax(sentences) + 2
        ELSE IF spaces # {} THEN SetMax(spaces) + 1
        ELSE w

\* C19: (max_chunk_size > 0) in every iteration whose window
\* [current_pos, current_pos + max_chunk_size) ends before the end of the text
\* the span ends just after a separator lying in the window at an index greater
\* than current_pos: the last double newline if there is one, else the last
\* newline, else the last ". ", else the last space; with none of them it ends
\* at current_pos + max_chunk_size.  When the window reaches the end of the
\* text the span is the whole remainder.
C19_BreakPointPriority ==
    (EnteredChunkText /\ max_chunk_size > 0)
        => \A k \in 1..Len(spans) : spans[k].end = ExpectedEnd(spans[k].start)

C19_Witness ==
    /\ MultiChunkResult
    /\ \E k \in 1..Len(spans) : spans[k].kind = "sentence"
    /\ \E k \in 1..Len(spans) : spans[k].kind = "newline"
    /\ \E k \in 1..Len(spans) : spans[k].kind = "space"
    /\ \E k \in 1..Len(spans) : spans[k].kind = "none"
    /\ spans[Len(spans)].kind = "end"

\* where the loop goes on after the span [start, end)
ExpectedNextPos(start, end) ==
    IF end - start > 3 * overlap_size THEN end - overlap_size ELSE end

\* C20: after every span [current_pos, chunk_end) the next current_pos is
\* chunk_end - overlap_size when chunk_end - current_pos > 3 * overlap_size and
\* chunk_end otherwise, whether the trimmed span was kept as a chunk or dropped.
C20_NextPosRule ==
    (EnteredChunkText /\ spans # <<>>)
        => /\ \A k \in 1..(Len(spans) - 1) :
                 spans[k + 1].start = ExpectedNextPos(spans[k].start, spans[k].end)
           /\ current_pos = ExpectedNextPos(spans[Len(spans)].start, spans[Len(spans)].end)

C20_Witness ==
    /\ MultiChunkResult
    /\ overlap_size > 0
    /\ \E k \in 1..(Len(spans) - 1) :
          ~spans[k].kept /\ spans[k + 1].start = spans[k].end
    /\ \E k \in 1..(Len(spans) - 1) :
          spans[k].kept /\ spans[k + 1].start = spans[k].end - overlap_size
    /\ \E k \in 1..(Len(spans) - 1) :
          /\ spans[k].kept /\ spans[k + 1].start = spans[k].end
          /\ spans[k].end - spans[k].start = 3 * overlap_size

\* int(group 1) of the match of the pattern at position i of s
MarkerValueAt(s, i) ==
    LET d == i + Len(MarkerHead)
    IN  StrToInt(SubSeq(s, d + 1, d + DigitRun(s, d)))

\* one more than the value of the last separator in the texts of the first k
\* chunks returned; 1 when they hold none
RECURSIVE LastMarkerPageIdx(_)
LastMarkerPageIdx(k) ==
    IF k = 0 THEN 1
    ELSE LET text == chunk_dicts[k].chunk_text
         IN  IF RegexMatches(text) # {}
             THEN MarkerValueAt(text, SetMax(RegexMatches(text))) + 1
             ELSE LastMarkerPageIdx(k - 1)

\* C21 (as claimed): in a multi-chunk result the page_index of chunk k is one
\* more than the value of the last separator occurring in the texts of chunks
\* 0..k, or 1 when none occurs there, also when a chunk holds several
\* separators.
C21_PageIndexIsLastMarker ==
    MultiChunkResult
        => \A k \in 1..Len(chunk_dicts) : chunk_dicts[k].page_index = LastMarkerPageIdx(k)

\* C22: for max_chunk_size > 0 and overlap_size >= 0 (overlap_size >=
\* max_chunk_size included) every iteration of the splitting loop starts below
\* the length of the concatenated text and leaves current_pos greater than it
\* was and not beyond that length, so the loop takes at most as many
\* iterations as the text has characters; it is left with current_pos >= the
\* length of the text, and a direct call of chunk_text ends by returning,
\* whatever the pages hold.
C22_LoopTerminates ==
    /\ [][(pc = "split" /\ max_chunk_size > 0 /\ overlap_size >= 0 /\ spans' # spans)
             => /\ current_pos < Len(combined_text)
                /\ current_pos' > current_pos
                /\ current_pos' <= Len(combined_text)]_vars
    /\ []((EnteredChunkText /\ max_chunk_size > 0 /\ overlap_size >= 0)
             => /\ Len(spans) <= Len(combined_text)
                /\ (pc # "split" /\ spans # <<>>) => current_pos >= Len(combined_text))
    /\ []((call = "chunk_text" /\ pc = "idle") => outcome = "returned")

C22_Witness ==
    /\ call = "chunk_text"
    /\ outcome = "returned"
    /\ overlap_size >= max_chunk_size
    /\ Len(spans) >= 3
    /\ current_pos >= Len(combined_text)

\* the window of max_chunk_size characters from start ends before the end of
\* the text and holds no double newline, newline, ". " or space after start
DegenerateWindow(start) ==
    LET w == start + max_chunk_size
    IN  /\ w < Len(combined_text)
        /\ SeparatorsIn(<<"\n">>, start, w) = {}
        /\ SeparatorsIn(<<" ">>, start, w) = {}

\* C26: (max_chunk_size > 0) a window that ends before the end of the text and
\* holds no separator after current_pos is cut at current_pos +
\* max_chunk_size; no iteration takes a span longer than max_chunk_size, and no
\* chunk returned has more than max_chunk_size characters.
C26_NoOversizedChunk ==
    (EnteredChunkText /\ max_chunk_size > 0)
        => /\ \A k \in 1..Len(spans) :
                 /\ spans[k].end - spans[k].start <= max_chunk_size
                 /\ \/ spans[k].end = spans[k].start + max_chunk_size
                    \/ ~DegenerateWindow(spans[k].start)
           /\ \A i \in 1..Len(chunk_dicts) : chunk_dicts[i].char_count <= max_chunk_size

C26_Witness ==
    /\ MultiChunkResult
    /\ max_chunk_size > 0
    /\ \E k \in 1..Len(spans) :
          /\ DegenerateWindow(spans[k].start)
          /\ spans[k].kept
          /\ spans[k].end - spans[k].start = max_chunk_size
    /\ \E i \in 1..Len(chunk_dicts) : chunk_dicts[i].char_count = max_chunk_size
    /\ ~EveryWindowHasBreak

\* C27: on the multi-chunk path with overlap_size > 0, when the span that
\* reaches the end of the text is longer than 3 * overlap_size, the loop takes
\* exactly one more iteration, over the last overlap_size characters of the
\* text, and stops; that last span lies inside the span before it.
C27_FinalOverlapIteration ==
    (MultiChunkResult /\ overlap_size > 0)
        => \A k \in 1..Len(spans) :
              (spans[k].end = Len(combined_text)
                  /\ spans[k].end - spans[k].start > 3 * overlap_size)
                 => /\ k = Len(spans) - 1
                    /\ spans[k + 1].start = Len(combined_text) - overlap_size
                    /\ spans[k + 1].end = Len(combined_text)
                    /\ spans[k + 1].start >= spans[k].start

C27_Witness ==
    /\ MultiChunkResult
    /\ overlap_size > 0
    /\ Len(spans) >= 3
    /\ spans[Len(spans) - 1].end = Len(combined_text)
    /\ spans[Len(spans) - 1].end - spans[Len(spans) - 1].start > 3 * overlap_size
    /\ spans[Len(spans)].kept
    /\ spans[Len(spans)].end - spans[Len(spans)].start = overlap_size

\* C28: when 3 * overlap_size >= max_chunk_size (max_chunk_size > 0), no span
\* is longer than 3 * overlap_size, current_pos always advances to chunk_end,
\* and consecutive spans share no character.
C28_NoOverlapWhenWindowSmall ==
    (EnteredChunkText /\ max_chunk_size > 0 /\ overlap_size >= 0
        /\ 3 * overlap_size >= max_chunk_size /\ spans # <<>>)
        => /\ \A k \in 1..Len(spans) : spans[k].end - spans[k].start <= 3 * overlap_size
           /\ \A k \in 1..(Len(spans) - 1) : spans[k + 1].start = spans[k].end
           /\ current_pos = spans[Len(spans)].end

C28_Witness ==
    /\ MultiChunkResult
    /\ max_chunk_size > 0
    /\ 3 * overlap_size >= max_chunk_size
    /\ overlap_size < max_chunk_size
    /\ Len(chunk_dicts) >= 3
    /\ \E k \in 1..Len(spans) : spans[k].end - spans[k].start > overlap_size * 2

\* the marker inserted before page i (0-based) is matched whole in some chunk returned
MarkerDetectable(i) ==
    \E k \in 1..Len(chunk_dicts) :
        \E m \in RegexMatches(chunk_dicts[k].chunk_text) :
            MarkerValueAt(chunk_dicts[k].chunk_text, m) = i

\* C24: on the multi-chunk path, for max_chunk_size > 0 and overlap_size >= 0,
\* every marker inserted between two pages is matched whole by the marker
\* pattern in the text of at least one chunk returned.
C24_EveryMarkerDetectable ==
    (MultiChunkResult /\ max_chunk_size > 0 /\ overlap_size >= 0)
        => \A i \in 1..(Len(page_texts) - 1) : MarkerDetectable(i)

\* the page_index values of a result, in order
PageIndexes(result) == [k \in 1..Len(result) |-> result[k].page_index]

\* C23 (as claimed): a document whose page text holds a string of the
\* separator's form gets the same page_index values as the same document with
\* that string replaced by text of equal length that is not of the form: only
\* the separators the chunker inserted change page_index.
C23_MarkerNeverCollides ==
    \A i, j \in 1..Len(completed) :
        (completed[j].pages
            = [p \in 1..Len(completed[i].pages) |-> WithoutMarkerForm(completed[i].pages[p])])
           => PageIndexes(completed[j].result) = PageIndexes(completed[i].result)

\* what the endpoint meets for ticker i of request req, in order: a directory
\* that is not there, or one entry per file of the directory, each with the
\* status its processing ends in (200: a result)
TickerEntries(req, i) ==
    LET ticker == req.pdf_file_company_ticker[i]
        files  == IterDir(ticker)
    IN  IF ~DirExists(ticker)
        THEN <<[ticker |-> ticker, file_name |-> "", status |-> 404]>>
        ELSE [k \in 1..Len(files) |->
                [ticker    |-> ticker,
                 file_name |-> files[k].name,
                 status    |-> IF i > Len(req.report_type) THEN 500
                               ELSE IF ~files[k].exists THEN 404
                               ELSE IF ~files[k].readable THEN 500
                               ELSE 200]]

RECURSIVE RequestEntries(_, _)
RequestEntries(req, n) ==
    IF n = 0 THEN <<>> ELSE RequestEntries(req, n - 1) \o TickerEntries(req, n)

\* C25: the endpoint answers all or nothing: when something fails, the
\* response is an error whose status is 404 if the first failure is a
\* not-found error and 500 otherwise, and it carries none of the results
\* computed for earlier files; a success carries one result per file of every
\* requested ticker, in request order; nothing is answered before the end.
C25_EndpointAllOrNothing ==
    LET req     == endpoint.req
        entries == RequestEntries(req, Len(req.pdf_file_company_ticker))
        failing == {e \in 1..Len(entries) : entries[e].status # 200}
        resp    == endpoint.response
    IN  /\ endpoint.pc # "done" => resp = NoResponse
        /\ endpoint.pc = "done" =>
              IF failing = {}
              THEN /\ resp.status_code = 200
                   /\ Len(resp.body) = Len(entries)
                   /\ \A e \in 1..Len(entries) :
                         /\ resp.body[e].success
                         /\ resp.body[e].file_name = entries[e].file_name
                         /\ resp.body[e].company_ticker = entries[e].ticker
              ELSE /\ resp.status_code = entries[SetMin(failing)].status
                   /\ resp.body = <<>>
                   /\ Len(endpoint.all_parsed_data) = SetMin(failing) - 1

C25_Witness ==
    /\ endpoint.pc = "done"
    /\ endpoint.response.status_code = 404
    /\ Len(endpoint.all_parsed_data) >= 3
    /\ endpoint.all_parsed_data[2].total_chunks >= 2
    /\ endpoint.response.body = <<>>

\* the rows of the table for a user and a report
FeedbackRows(user_name, report_execution_id) ==
    {i \in 1..Len(report_human_feedback) :
        /\ report_human_feedback[i].user_name = user_name
        /\ report_human_feedback[i].report_n8n_execution_id = report_execution_id}

\* C29 (as claimed): whatever the interleaving of the submissions, the table
\* holds at most one row for a pair (user_name, report_n8n_execution_id).
C29_OneRowPerUserAndReport ==
    \A r \in user_data, e \in Reports : Cardinality(FeedbackRows(r.user_name, e)) <= 1

\* the login submitted meets every condition of a successful authentication
\* as user
AttemptAuthenticates(attempt, user) ==
    /\ attempt.db_ok
    /\ strip(attempt.user_name) # <<>>
    /\ strip(attempt.user_token) # <<>>
    /\ user \in user_data
    /\ user.user_name = strip(attempt.user_name)
    /\ user.user_token = strip(attempt.user_token)

\* C30: a session gets a user only from a login whose name and token are not
\* blank and match a row of user_data while the database answers, and loses
\* it at logout; the table changes only by the save of a session that holds a
\* user, which adds a row under that user's user_name or changes only rows
\* with that user_name.
C30_WritesOnlyWhenLoggedIn ==
    /\ [][\A s \in Sessions :
             session_state'[s] # session_state[s] =>
                \/ session_state'[s] = None /\ session_state[s] # None
                \/ /\ session_state[s] = None
                   /\ last_attempt'.session = s
                   /\ AttemptAuthenticates(last_attempt', session_state'[s])]_vars
    /\ [][\A s \in Sessions :
             (last_attempt' # last_attempt /\ last_attempt'.session = s
                 /\ \A r \in user_data : ~AttemptAuthenticates(last_attempt', r))
                => session_state'[s] = None]_vars
    /\ [][report_human_feedback' # report_human_feedback =>
             \E s \in Sessions :
                /\ run[s].pc = "saving" /\ run'[s].pc = "idle"
                /\ session_state[s] # None
                /\ Len(report_human_feedback') >= Len(report_human_feedback)
                /\ \A i \in 1..Len(report_human_feedback') :
                      (i > Len(report_human_feedback)
                          \/ report_human_feedback'[i] # report_human_feedback[i])
                         => report_human_feedback'[i].user_name = session_state[s].user_name
                /\ \A i \in 1..Len(report_human_feedback) :
                      report_human_feedback'[i] # report_human_feedback[i]
                         => report_human_feedback[i].user_name = session_state[s].user_name]_vars

C30_Witness ==
    /\ Len(report_human_feedback) = 2
    /\ report_human_feedback[1].user_name # report_human_feedback[2].user_name
    /\ report_human_feedback[1].logged_at = 3
    /\ session_state[1] = None
    /\ session_state[2] # None
    /\ last_attempt # None
    /\ last_attempt.session = 1
    /\ ~last_attempt.db_ok

=============================================================================
